---- MODULE Spec2Model ----
(***************************************************************************)
(* Model of konlpy/tag/_mecab.py: the module-level function parse (with    *)
(* its nested split), and the class Mecab (__init__, __getstate__,         *)
(* __setstate__, pos, morphs, nouns).                                      *)
(*                                                                         *)
(* A Python str is a sequence of one-character strings.  A value returned  *)
(* by a function is a record [err, val]: err = "none" when the function    *)
(* returns val, otherwise the name of the exception that escapes it.       *)
(* The external tagger (mecab_ko.Tagger) is opaque: every call of its      *)
(* parse method on a given text answers with one dump, chosen by the       *)
(* environment, and the same text gets the same dump within one call.      *)
(***************************************************************************)
EXTENDS Naturals, Sequences, FiniteSets

VARIABLES mecab, pickled, restored, last

vars == <<mecab, pickled, restored, last>>

----------------------------------------------------------------------------
(* Bounds of the model *)

\* longest phrase handed to pos / morphs / nouns
MaxPhraseLen == 3
\* most token lines of a dump handed to parse directly
MaxLines == 2

----------------------------------------------------------------------------
(* Python str methods, by what they do *)

\* index of the first element of s that lies in cs, 0 when there is none
RECURSIVE FindFrom(_, _, _)
FindFrom(s, cs, i) ==
  IF i > Len(s) THEN 0
  ELSE IF s[i] \in cs THEN i
  ELSE FindFrom(s, cs, i + 1)

Find(s, cs) == FindFrom(s, cs, 1)

\* str.split(sep), sep one character: always at least one piece
RECURSIVE StrSplit(_, _)
StrSplit(s, sep) ==
  LET i == Find(s, {sep}) IN
  IF i = 0 THEN <<s>>
  ELSE <<SubSeq(s, 1, i - 1)>> \o StrSplit(SubSeq(s, i + 1, Len(s)), sep)

\* str.split(sep, 1)
StrSplit1(s, sep) ==
  LET i == Find(s, {sep}) IN
  IF i = 0 THEN <<s>>
  ELSE <<SubSeq(s, 1, i - 1), SubSeq(s, i + 1, Len(s))>>

LineBreaks == {"\n", "\r"}

\* str.splitlines(): "\r\n" is one break, no empty piece after a final break
RECURSIVE StrSplitLines(_)
StrSplitLines(s) ==
  IF s = <<>> THEN <<>>
  ELSE LET i == Find(s, LineBreaks) IN
    IF i = 0 THEN <<s>>
    ELSE LET skip == IF s[i] = "\r" /\ i < Len(s) /\ s[i + 1] = "\n"
                     THEN 2 ELSE 1
         IN <<SubSeq(s, 1, i - 1)>>
              \o StrSplitLines(SubSeq(s, i + skip, Len(s)))

Whitespace == {" ", "\t", "\n", "\r"}

\* index of the first element of s not in cs, 0 when there is none
RECURSIVE FindNotFrom(_, _, _)
FindNotFrom(s, cs, i) ==
  IF i > Len(s) THEN 0
  ELSE IF s[i] \notin cs THEN i
  ELSE FindNotFrom(s, cs, i + 1)

\* str.split(): runs of whitespace separate, no empty pieces
RECURSIVE StrSplitWs(_)
StrSplitWs(s) ==
  LET b == FindNotFrom(s, Whitespace, 1) IN
  IF b = 0 THEN <<>>
  ELSE LET rest == SubSeq(s, b, Len(s))
           e == Find(rest, Whitespace)
       IN IF e = 0 THEN <<rest>>
          ELSE <<SubSeq(rest, 1, e - 1)>>
                 \o StrSplitWs(SubSeq(rest, e, Len(rest)))

\* str.startswith(c), c one character
StartsWith(s, c) == Len(s) >= 1 /\ s[1] = c

----------------------------------------------------------------------------
(* Values *)

Ok(v) == [err |-> "none", val |-> v]
Raise(e) == [err |-> e, val |-> <<>>]

\* a (surface, tag) tuple, and a str element, of a result list
Tuple(s, t) == [kind |-> "tuple", s |-> s, t |-> t]
Str(v) == [kind |-> "str", s |-> v, t |-> <<>>]

SY == <<"S", "Y">>
Inflect == <<"I", "n", "f", "l", "e", "c", "t">>

----------------------------------------------------------------------------
(* parse and its nested split *)

\* the loop of split over the '+'-components of features[7]: token[1] of a
\* component without '/' raises IndexError
RECURSIVE splitTokens(_, _, _, _)
splitTokens(tokens, i, join, res) ==
  IF i > Len(tokens) THEN Ok(res)
  ELSE LET token == tokens[i] IN
    IF Len(token) < 2 THEN Raise("IndexError")
    ELSE splitTokens(tokens, i + 1, join,
           Append(res, IF join THEN Str(token[1] \o <<"/">> \o token[2])
                       ELSE Tuple(token[1], token[2])))

\* original.split('+'), then token.split('/') of each piece
splitOriginal(parts) == [k \in 1..Len(parts) |-> StrSplit(parts[k], "/")]

\* split from "features = t.split(',')" on: features[4] and features[7]
\* raise IndexError on a line with too few features
splitFeatures(s, features, join, split_inflect) ==
  IF split_inflect /\ Len(features) < 5 THEN Raise("IndexError")
  ELSE IF split_inflect /\ features[5] = Inflect THEN
    IF Len(features) < 8 THEN Raise("IndexError")
    ELSE splitTokens(splitOriginal(StrSplit(features[8], "+")), 1, join, <<>>)
  ELSE IF join THEN Ok(<<Str(s \o <<"/">> \o features[1])>>)
  ELSE Ok(<<Tuple(s, features[1])>>)

\* split from "segments = elem.split('\t', 1)" on
splitSegments(segments, join, split_inflect) ==
  IF Len(segments) # 2 THEN Ok(<<Tuple(<<>>, SY)>>)
  ELSE splitFeatures(segments[1], StrSplit(segments[2], ","), join,
                     split_inflect)

split(elem, join, split_inflect) ==
  IF elem = <<>> THEN Ok(<<Tuple(<<>>, SY)>>)
  ELSE splitSegments(StrSplit1(elem, "\t"), join, split_inflect)

\* the for loop of parse taken when split_inflect is true
RECURSIVE parseExtend(_, _, _, _, _)
RECURSIVE parseExtendWith(_, _, _, _, _, _)
parseExtend(elems, i, join, split_inflect, res) ==
  IF i > Len(elems) THEN Ok(res)
  ELSE parseExtendWith(elems, i, join, split_inflect, res,
                       split(elems[i], join, split_inflect))

\* res.extend(morphs), morphs the tokens split gave for line i
parseExtendWith(elems, i, join, split_inflect, res, morphs_) ==
  IF morphs_.err # "none" THEN Raise(morphs_.err)
  ELSE parseExtend(elems, i + 1, join, split_inflect, res \o morphs_.val)

\* result.splitlines()[:-1]
TokenLines(result) ==
  LET ls == StrSplitLines(result) IN
  IF Len(ls) = 0 THEN <<>> ELSE SubSeq(ls, 1, Len(ls) - 1)

\* a parse that skips the lines split has no token for: "if elem" added
parseLinesSkipEmpty(elems, join, split_inflect) ==
  parseExtend(SelectSeq(elems, LAMBDA e : e # <<>>), 1, join, split_inflect,
              <<>>)

\* parse from its lines on
parseLines(elems, join, split_inflect) ==
  IF split_inflect THEN parseExtend(elems, 1, join, split_inflect, <<>>)
  ELSE Ok([k \in 1..Len(elems) |-> split(elems[k], join, FALSE).val[1]])

parse(result, join, split_inflect) ==
  parseLines(TokenLines(result), join, split_inflect)

----------------------------------------------------------------------------
(* class Mecab *)

\* a phrase argument: a str, or a value of another type
Text(v) == [type |-> "str", v |-> v]
NoneArg == [type |-> "NoneType", v |-> <<>>]
IntArg == [type |-> "int", v |-> <<>>]

\* konlpy.tag._common.validate_phrase_inputs: rejects what is not text
validate_phrase_inputs(phrase) ==
  IF phrase.type = "str" THEN "none" ELSE "ValidationError"

\* one call of self.tagger.parse: the text given and the dump answered
TaggerCall(text, oracle) == [arg |-> text, out |-> oracle[text]]

\* the list comprehension of pos taken when flatten is false: the tagger and
\* parse run on one eojeol after the other; the first exception ends it
\* the outcome r of a function, with the tagger calls made on the way
WithCalls(r, calls) == [err |-> r.err, val |-> r.val, calls |-> calls]

RECURSIVE posEojeols(_, _, _, _, _, _, _)
RECURSIVE posEojeolParsed(_, _, _, _, _, _, _, _)
posEojeols(eojeols, i, join, split_inflect, oracle, res, calls) ==
  IF i > Len(eojeols) THEN WithCalls(Ok(res), calls)
  ELSE posEojeolParsed(eojeols, i, join, split_inflect, oracle, res,
         Append(calls, TaggerCall(eojeols[i], oracle)),
         parse(oracle[eojeols[i]], join, split_inflect))

\* eojeol i tagged and parsed to r: r joins the list, or its exception ends pos
posEojeolParsed(eojeols, i, join, split_inflect, oracle, res, calls, r) ==
  IF r.err # "none" THEN WithCalls(Raise(r.err), calls)
  ELSE posEojeols(eojeols, i + 1, join, split_inflect, oracle,
                  Append(res, r.val), calls)

\* a pos that validates the phrase on the flatten path only
posValidateFlat(phrase, flatten, join, split_inflect, oracle) ==
  IF flatten
  THEN IF validate_phrase_inputs(phrase) # "none"
       THEN WithCalls(Raise(validate_phrase_inputs(phrase)), <<>>)
       ELSE WithCalls(parse(oracle[phrase.v], join, split_inflect),
                      <<TaggerCall(phrase.v, oracle)>>)
  ELSE posEojeols(StrSplitWs(phrase.v), 1, join, split_inflect, oracle,
                  <<>>, <<>>)

\* Mecab.pos, on Python 3 (the branch of lines 134-139; the annotation of
\* split makes the module Python 3 only); calls is the sequence of tagger
\* calls it made
pos(phrase, flatten, join, split_inflect, oracle) ==
  IF validate_phrase_inputs(phrase) # "none"
  THEN WithCalls(Raise(validate_phrase_inputs(phrase)), <<>>)
  ELSE IF flatten
    THEN WithCalls(parse(oracle[phrase.v], join, split_inflect),
                   <<TaggerCall(phrase.v, oracle)>>)
    ELSE posEojeols(StrSplitWs(phrase.v), 1, join, split_inflect, oracle,
                    <<>>, <<>>)

\* [s for s, t in tagged]: a str element does not unpack into s, t
RECURSIVE unpackSurfaces(_, _, _)
unpackSurfaces(tagged, i, res) ==
  IF i > Len(tagged) THEN Ok(res)
  ELSE IF tagged[i].kind # "tuple" THEN Raise("ValueError")
  ELSE unpackSurfaces(tagged, i + 1, Append(res, tagged[i].s))

\* a morphs that keeps the tags: [t for s, t in tagged]
morphsOfTags(tagged) ==
  IF tagged.err # "none" THEN tagged
  ELSE WithCalls(Ok([k \in 1..Len(tagged.val) |-> tagged.val[k].t]),
                 tagged.calls)

\* morphs once self.pos(phrase) is back: its exception passes through
morphsOf(tagged) ==
  IF tagged.err # "none" THEN tagged
  ELSE WithCalls(unpackSurfaces(tagged.val, 1, <<>>), tagged.calls)

\* Mecab.morphs
morphs(phrase, oracle) == morphsOf(pos(phrase, TRUE, FALSE, FALSE, oracle))

\* [s for s, t in tagged if t.startswith('N')]
RECURSIVE unpackNouns(_, _, _)
unpackNouns(tagged, i, res) ==
  IF i > Len(tagged) THEN Ok(res)
  ELSE IF tagged[i].kind # "tuple" THEN Raise("ValueError")
  ELSE unpackNouns(tagged, i + 1,
         IF StartsWith(tagged[i].t, "N") THEN Append(res, tagged[i].s)
         ELSE res)

\* a nouns that tests 'N' in t instead of t.startswith('N')
RECURSIVE unpackNounsAnywhere(_, _, _)
unpackNounsAnywhere(tagged, i, res) ==
  IF i > Len(tagged) THEN Ok(res)
  ELSE unpackNounsAnywhere(tagged, i + 1,
         IF Find(tagged[i].t, {"N"}) # 0 THEN Append(res, tagged[i].s)
         ELSE res)

nounsOfAnywhere(tagged) ==
  IF tagged.err # "none" THEN tagged
  ELSE WithCalls(unpackNounsAnywhere(tagged.val, 1, <<>>), tagged.calls)

\* nouns once tagged = self.pos(phrase) is back
nounsOf(tagged) ==
  IF tagged.err # "none" THEN tagged
  ELSE WithCalls(unpackNouns(tagged.val, 1, <<>>), tagged.calls)

\* Mecab.nouns
nouns(phrase, oracle) == nounsOf(pos(phrase, TRUE, FALSE, FALSE, oracle))

\* the dictionary directory of the mecab_ko_dic package, the value None, and
\* the tag set read from data/tagset/mecab.json
DICDIR == "/mecab_ko_dic/dicdir"
PyNone == "None"
TAGSET == "mecab.json"

\* the dictionaries the Tagger constructor finds
InstalledDics == {DICDIR, "/dic/a"}

\* Tagger(args): RuntimeError when the dictionary named by -d is missing
Tagger(args) ==
  IF args = <<>> \/ args[2] \in InstalledDics THEN Ok([args |-> args])
  ELSE Raise("RuntimeError")

\* Mecab.__init__; built is the sequence of Tagger constructions it made
\* __init__ once self.dicpath is set and Tagger(args) is back as tg
initWith(path, args, tg) ==
  IF tg.err = "RuntimeError"
  THEN [err |-> "Exception", val |-> <<>>, built |-> <<>>]
  ELSE [err |-> "none",
        val |-> [dicpath |-> path, tagger |-> tg.val, tagset |-> TAGSET],
        built |-> <<args>>]

init(dicpath) ==
  IF dicpath \notin {PyNone, ""}
  THEN initWith(dicpath, <<"-d", dicpath>>, Tagger(<<"-d", dicpath>>))
  ELSE initWith(DICDIR, <<>>, Tagger(<<>>))

\* Mecab.__getstate__
getstate(self) == [dicpath |-> self.dicpath]

\* a __setstate__ that drops the state: self.__init__()
setstateDefault(state) == init(PyNone)

\* Mecab.__setstate__
setstate(state) == init(state.dicpath)

----------------------------------------------------------------------------
(* Inputs *)

RECURSIVE JoinSeq(_, _)
JoinSeq(fields, sep) ==
  IF Len(fields) = 0 THEN <<>>
  ELSE IF Len(fields) = 1 THEN fields[1]
  ELSE fields[1] \o <<sep>> \o JoinSeq(Tail(fields), sep)

Star == <<"*">>
NNG == <<"N", "N", "G">>
VV == <<"V", "V">>
EC == <<"E", "C">>
SF == <<"S", "F">>
VVEC == <<"V", "V", "+", "E", "C">>
XSN == <<"X", "S", "N">>

\* the nine attrs of a dictionary entry, as the tagger prints them
Feat(tag, type, original) ==
  <<tag, Star, <<"T">>, Star, type, Star, Star, original, Star>>

\* a dump line: surface, tab, comma-separated features
Line(surface, feats) == surface \o <<"\t">> \o JoinSeq(feats, ",")

OrigAB == JoinSeq(<<JoinSeq(<<<<"a">>, VV, Star>>, "/"),
                    JoinSeq(<<<<"b">>, EC, Star>>, "/")>>, "+")
OrigNoSlash == JoinSeq(<<JoinSeq(<<<<"a">>, VV, Star>>, "/"), <<"b">>>>, "+")

LineNoun == Line(<<"a">>, Feat(NNG, Star, Star))
LineVerb == Line(<<"b">>, Feat(VV, Star, Star))
LineSymbol == Line(<<>>, Feat(SF, Star, Star))
LineSuffix == Line(<<"b">>, Feat(XSN, Star, Star))
\* an inflected entry whose stem and ending spell its surface
LineInflect == Line(<<"a", "b">>, Feat(VVEC, Inflect, OrigAB))
\* an inflected entry whose surface is a contraction of stem and ending
LineInflectFused == Line(<<"c">>, Feat(VVEC, Inflect, OrigAB))
\* eight features: the last one, indexed, is missing
LineInflect8 == Line(<<"a", "b">>, SubSeq(Feat(VVEC, Inflect, OrigAB), 1, 8))
\* seven features: type is there, original is not
LineInflect7 == Line(<<"a", "b">>, SubSeq(Feat(VVEC, Inflect, OrigAB), 1, 7))
LineInflectNoSlash == Line(<<"a", "b">>, Feat(VVEC, Inflect, OrigNoSlash))
LineShort == Line(<<"a">>, <<NNG>>)
LineEmpty == <<>>
LineNoTab == <<"a", "b">>

Lines ==
  {LineNoun, LineSymbol, LineInflect, LineInflectFused,
   LineInflect8, LineInflect7, LineInflectNoSlash, LineShort, LineEmpty,
   LineNoTab}

EOS == <<"E", "O", "S">>
Terminators == {EOS \o <<"\n">>, EOS \o <<"\r", "\n">>, EOS, <<>>}

SeqsUpTo(S, n) == UNION {[1..k -> S] : k \in 0..n}

\* the lines, each ended by a newline, then the terminator
RECURSIVE Dump(_, _)
Dump(ls, term) ==
  IF Len(ls) = 0 THEN term
  ELSE ls[1] \o <<"\n">> \o Dump(Tail(ls), term)

\* what the tagger answers: token lines, then EOS and a newline
TaggerLineSeqs ==
  {<<>>, <<LineNoun>>, <<LineVerb, LineNoun>>, <<LineNoun, LineSuffix>>,
   <<LineInflectFused, LineNoun>>, <<LineEmpty, LineNoun>>, <<LineShort>>,
   <<LineNoun, LineInflectNoSlash>>}
TaggerDumps == {Dump(ls, EOS \o <<"\n">>) : ls \in TaggerLineSeqs}

PhraseChars == {"a", "b", " "}
Phrases ==
  {Text(s) : s \in SeqsUpTo(PhraseChars, MaxPhraseLen)} \cup {NoneArg, IntArg}
FewPhrases == {Text(<<"a">>), Text(<<"a", " ", "b">>), NoneArg}

DicArgs == {PyNone, "", DICDIR, "/dic/a", "/dic/missing"}

\* the texts pos hands to the tagger
TaggerInputs(phrase, flatten) ==
  IF phrase.type # "str" THEN {}
  ELSE IF flatten THEN {phrase.v}
  ELSE {StrSplitWs(phrase.v)[k] : k \in 1..Len(StrSplitWs(phrase.v))}

Oracles(phrase, flatten) == [TaggerInputs(phrase, flatten) -> TaggerDumps]

----------------------------------------------------------------------------
(* State machine *)

NoState == [dicpath |-> "<no state>"]
NoEngine == [dicpath |-> "<no engine>", tagger |-> [args |-> <<>>],
             tagset |-> ""]

\* the last operation: its name, its arguments and its outcome
NoCall ==
  [op |-> "", phrase |-> NoneArg, flatten |-> TRUE, join |-> FALSE,
   split_inflect |-> FALSE, lines |-> <<>>, term |-> <<>>, dump |-> <<>>,
   dicarg |-> "", err |-> "none", val |-> <<>>, calls |-> <<>>,
   built |-> <<>>]

\* rec, completed by the outcome r of the operation
Returned(rec, r) == [rec EXCEPT !.err = r.err, !.val = r.val, !.calls = r.calls]
Built(rec, r) == [rec EXCEPT !.err = r.err, !.built = r.built]

InitWith(dicpath, r) ==
  /\ r.err = "none"
  /\ mecab = r.val
  /\ pickled = NoState
  /\ restored = NoEngine
  /\ last = Built([NoCall EXCEPT !.op = "init", !.dicarg = dicpath], r)

Init == \E dicpath \in DicArgs : InitWith(dicpath, init(dicpath))

\* the caller holds no result: construction, capture, re-hydration or a
\* dropped result came last
Idle == last.op \in {"init", "getstate", "setstate", "discard"}

\* the caller drops the result of the last call
Discard ==
  /\ ~Idle
  /\ last' = [NoCall EXCEPT !.op = "discard"]
  /\ UNCHANGED <<mecab, pickled, restored>>

\* parse(result, join=..., split_inflect=...)
ParseAct ==
  /\ Idle
  /\ \E ls \in SeqsUpTo(Lines, MaxLines), term \in Terminators,
     join \in BOOLEAN, split_inflect \in BOOLEAN :
    /\ last' = Returned([NoCall EXCEPT !.op = "parse", !.lines = ls,
                           !.term = term, !.dump = Dump(ls, term),
                           !.join = join, !.split_inflect = split_inflect],
                  WithCalls(parse(Dump(ls, term), join, split_inflect), <<>>))
    /\ UNCHANGED <<mecab, pickled, restored>>

\* mecab.pos(phrase, flatten=..., join=..., split_inflect=...)
PosAct(P) ==
  /\ Idle
  /\ \E phrase \in P, flatten \in BOOLEAN, join \in BOOLEAN,
     split_inflect \in BOOLEAN :
    \E oracle \in Oracles(phrase, flatten) :
      /\ last' = Returned([NoCall EXCEPT !.op = "pos", !.phrase = phrase,
                             !.flatten = flatten, !.join = join,
                             !.split_inflect = split_inflect],
                    pos(phrase, flatten, join, split_inflect, oracle))
      /\ UNCHANGED <<mecab, pickled, restored>>

\* mecab.morphs(phrase)
MorphsAct(P) ==
  /\ Idle
  /\ \E phrase \in P :
    \E oracle \in Oracles(phrase, TRUE) :
      /\ last' = Returned([NoCall EXCEPT !.op = "morphs", !.phrase = phrase],
                          morphs(phrase, oracle))
      /\ UNCHANGED <<mecab, pickled, restored>>

\* mecab.nouns(phrase)
NounsAct(P) ==
  /\ Idle
  /\ \E phrase \in P :
    \E oracle \in Oracles(phrase, TRUE) :
      /\ last' = Returned([NoCall EXCEPT !.op = "nouns", !.phrase = phrase],
                          nouns(phrase, oracle))
      /\ UNCHANGED <<mecab, pickled, restored>>

\* mecab = Mecab(dicpath): a failed construction leaves the old engine
ConstructWith(dicpath, r) ==
  /\ last' = Built([NoCall EXCEPT !.op = "init", !.dicarg = dicpath], r)
  /\ IF r.err = "none"
     THEN mecab' = r.val /\ pickled' = NoState /\ restored' = NoEngine
     ELSE UNCHANGED <<mecab, pickled, restored>>

Construct == \E dicpath \in DicArgs : ConstructWith(dicpath, init(dicpath))

\* pickled = mecab.__getstate__()
GetState ==
  /\ pickled' = getstate(mecab)
  /\ last' = [NoCall EXCEPT !.op = "getstate"]
  /\ UNCHANGED <<mecab, restored>>

\* restored.__setstate__(pickled), restored a blank Mecab object
SetStateWith(r) ==
  /\ restored' = IF r.err = "none" THEN r.val ELSE NoEngine
  /\ last' = Built([NoCall EXCEPT !.op = "setstate",
                                  !.dicarg = pickled.dicpath], r)
  /\ UNCHANGED <<mecab, pickled>>

SetState == pickled # NoState /\ SetStateWith(setstate(pickled))

Next ==
  \/ Discard
  \/ ParseAct
  \/ PosAct(Phrases)
  \/ MorphsAct(Phrases)
  \/ NounsAct(Phrases)

Spec == Init /\ [][Next]_vars

NextPickle ==
  \/ Discard
  \/ Construct
  \/ GetState
  \/ SetState
  \/ PosAct(FewPhrases)
  \/ MorphsAct(FewPhrases)
  \/ NounsAct(FewPhrases)

SpecPickle == Init /\ [][NextPickle]_vars

----------------------------------------------------------------------------
(* What the properties below read off the state *)

\* the tagger's answers during the last call, as a function of the text
OracleOf(calls) ==
  [x \in {calls[k].arg : k \in 1..Len(calls)} |->
     calls[CHOOSE k \in 1..Len(calls) : calls[k].arg = x].out]

IsCall(rec) == rec.op \in {"pos", "morphs", "nouns"}
Accepted(rec) == rec.phrase.type = "str"

\* the text of a dump line before its tab, and its first feature
TabOf(l) == Find(l, {"\t"})
SurfaceOfLine(l) == SubSeq(l, 1, TabOf(l) - 1)
FeaturesOfLine(l) == StrSplit(SubSeq(l, TabOf(l) + 1, Len(l)), ",")
TagOfLine(l) == FeaturesOfLine(l)[1]

Render(s, t, join) == IF join THEN Str(s \o <<"/">> \o t) ELSE Tuple(s, t)
Placeholder == Tuple(<<>>, SY)

\* the token of one dump line when inflections are not split
ExpectedToken(l, join) ==
  IF l = <<>> \/ TabOf(l) = 0 THEN Placeholder
  ELSE Render(SurfaceOfLine(l), TagOfLine(l), join)

\* the lines of the dump Dump(ls, term) that precede its final line
TokenLineCount(ls, term) ==
  IF term # <<>> THEN Len(ls)
  ELSE IF Len(ls) = 0 THEN 0 ELSE Len(ls) - 1

IsInflectLine(l) ==
  /\ TabOf(l) # 0
  /\ Len(FeaturesOfLine(l)) >= 5
  /\ FeaturesOfLine(l)[5] = Inflect

WellFormedLine(l) == TabOf(l) > 1 /\ Len(FeaturesOfLine(l)) >= 8

RECURSIVE ConcatSurfaces(_)
ConcatSurfaces(toks) ==
  IF Len(toks) = 0 THEN <<>> ELSE Head(toks).s \o ConcatSurfaces(Tail(toks))

\* the eojeols of a text: its maximal runs of non-whitespace, left to right
SegStarts(s) ==
  {i \in 1..Len(s) : s[i] \notin Whitespace
                      /\ (i = 1 \/ s[i - 1] \in Whitespace)}
SegEnds(s) ==
  {i \in 1..Len(s) : s[i] \notin Whitespace
                      /\ (i = Len(s) \/ s[i + 1] \in Whitespace)}
Kth(S, k) == CHOOSE x \in S : Cardinality({y \in S : y < x}) = k - 1
Eojeol(s, k) == SubSeq(s, Kth(SegStarts(s), k), Kth(SegEnds(s), k))
NumEojeols(s) == Cardinality(SegStarts(s))

AllJoined(toks) ==
  \A k \in 1..Len(toks) :
    toks[k].kind = "str" /\ Find(toks[k].s, {"/"}) # 0

IsNounTagged(tok) == tok.t # <<>> /\ Head(tok.t) = "N"

\* the one tagger call of a flat pos, on the whole phrase
OneCallOnPhrase(rec) ==
  Len(rec.calls) = 1 /\ rec.calls[1].arg = rec.phrase.v

----------------------------------------------------------------------------
(* Properties *)

\* C1: for every accepted phrase, morphs(phrase) returns, and what it
\* returns is the sequence of surfaces of pos(phrase) with the default
\* options: same length, same order, empty surfaces included.
C1_MorphsArePosSurfaces ==
  (last.op = "morphs" /\ Accepted(last)) =>
    /\ last.err = "none"
    /\ OneCallOnPhrase(last)
    /\ LET tagged == pos(last.phrase, TRUE, FALSE, FALSE,
                         OracleOf(last.calls))
       IN /\ tagged.err = "none"
          /\ Len(last.val) = Len(tagged.val)
          /\ \A k \in 1..Len(tagged.val) :
               tagged.val[k].kind = "tuple" /\ last.val[k] = tagged.val[k].s

\* morphs returned two surfaces, the first the empty one of a placeholder
C1_Witness ==
  /\ last.op = "morphs"
  /\ last.err = "none"
  /\ last.val = << <<>>, <<"a">> >>

\* C2: for every accepted phrase, nouns(phrase) is the subsequence of
\* morphs(phrase) at the positions where the tag of pos(phrase) begins with
\* 'N', in order: none of them left out, no other let in.
C2_NounsAreNounTaggedMorphs ==
  (last.op = "nouns" /\ Accepted(last)) =>
    /\ last.err = "none"
    /\ OneCallOnPhrase(last)
    /\ LET tagged == pos(last.phrase, TRUE, FALSE, FALSE,
                         OracleOf(last.calls)).val
           surfaces == morphs(last.phrase, OracleOf(last.calls)).val
           at == SelectSeq([k \in 1..Len(tagged) |-> k],
                           LAMBDA k : IsNounTagged(tagged[k]))
       IN /\ Len(last.val) = Len(at)
          /\ \A j \in 1..Len(at) : last.val[j] = surfaces[at[j]]

\* nouns kept the NNG token and left out the XSN token that followed it
C2_Witness ==
  /\ last.op = "nouns"
  /\ last.err = "none"
  /\ last.val = << <<"a">> >>
  /\ last.calls[1].out = Dump(<<LineNoun, LineSuffix>>, EOS \o <<"\n">>)

\* C3: with join=true every element parse (and so pos) returns is one str
\* surface + "/" + tag, never a pair, for every line of the dump and both
\* values of split_inflect.
C3_JoinGivesOnlyStrings ==
  (last.op \in {"parse", "pos"} /\ last.join /\ last.err = "none") =>
    IF last.op = "pos" /\ ~last.flatten
    THEN \A i \in 1..Len(last.val) : AllJoined(last.val[i])
    ELSE AllJoined(last.val)

\* C4: for a line of type Inflect, the surfaces of the tokens parse emits
\* with split_inflect=true concatenate to the surface it emits for the same
\* line with split_inflect=false.
C4_InflectSurfacesRecompose ==
  (/\ last.op = "parse"
   /\ last.split_inflect
   /\ ~last.join
   /\ Len(last.lines) = 1
   /\ last.term # <<>>
   /\ IsInflectLine(last.lines[1])
   /\ last.err = "none") =>
    ConcatSurfaces(last.val) = parse(last.dump, FALSE, FALSE).val[1].s

\* C5: with split_inflect=false parse returns one element per line before
\* the final line of the dump, in line order; an empty line and a line
\* without a tab give the placeholder ("", "SY") at their position.
C5_OneTokenPerLine ==
  (last.op = "parse" /\ ~last.split_inflect) =>
    /\ last.err = "none"
    /\ Len(last.val) = TokenLineCount(last.lines, last.term)
    /\ \A k \in 1..Len(last.val) :
         last.val[k] = ExpectedToken(last.lines[k], last.join)

\* parse kept the place of an empty line between two token lines
C5_Witness ==
  /\ last.op = "parse"
  /\ ~last.split_inflect
  /\ last.lines = <<LineNoun, LineEmpty>>
  /\ last.term = EOS \o <<"\n">>
  /\ Len(last.val) = 2
  /\ last.val[2] = Placeholder

\* C6: pos(phrase, flatten=false) returns one element per eojeol of the
\* phrase, in order; element i is parse of the tagger's answer for eojeol i
\* with the same join and split_inflect; the tagger is called once per
\* eojeol, in order, and never on the whole phrase.
C6_OneElementPerEojeol ==
  (last.op = "pos" /\ ~last.flatten /\ Accepted(last)) =>
    /\ last.err = "none"
    /\ Len(last.val) = NumEojeols(last.phrase.v)
    /\ Len(last.calls) = NumEojeols(last.phrase.v)
    /\ \A k \in 1..Len(last.calls) :
         /\ last.calls[k].arg = Eojeol(last.phrase.v, k)
         /\ last.val[k] =
              parse(last.calls[k].out, last.join, last.split_inflect).val

\* what is left of C6 on the calls that return
C6_WhenPosReturns ==
  (last.op = "pos" /\ ~last.flatten /\ Accepted(last) /\ last.err = "none") =>
    /\ Len(last.val) = NumEojeols(last.phrase.v)
    /\ Len(last.calls) = NumEojeols(last.phrase.v)
    /\ \A k \in 1..Len(last.calls) :
         /\ last.calls[k].arg = Eojeol(last.phrase.v, k)
         /\ last.val[k] =
              parse(last.calls[k].out, last.join, last.split_inflect).val

\* C7: a pos, morphs or nouns call on a phrase that validation rejects ends
\* with the validation error, calls the tagger not once, returns nothing and
\* leaves the engine as it was.
C7_RejectedCallDoesNothing ==
  [][(IsCall(last') /\ validate_phrase_inputs(last'.phrase) # "none") =>
       /\ last'.err = "ValidationError"
       /\ last'.calls = <<>>
       /\ last'.val = <<>>
       /\ mecab' = mecab
       /\ pickled' = pickled
       /\ restored' = restored]_vars

\* a pos call with flatten=false was rejected
C7_Witness ==
  /\ last.op = "pos"
  /\ ~last.flatten
  /\ last.phrase = NoneArg
  /\ last.err = "ValidationError"

\* C8: parse returns a token sequence for every dump and every join and
\* split_inflect; no malformed line makes the call fail.
C8_ParseAlwaysReturns ==
  last.op = "parse" => last.err = "none"

\* C9: the captured state is the record {dicpath} of the engine, and a
\* re-hydration from it is a construction from that path: same dicpath as
\* the original, one new Tagger for that path, the tag set read anew, and
\* nothing that is not a function of the path.
C9_StateRoundTrip ==
  /\ pickled # NoState => pickled = [dicpath |-> mecab.dicpath]
  /\ restored # NoEngine =>
       /\ restored.dicpath = mecab.dicpath
       /\ restored.tagger = [args |-> <<"-d", mecab.dicpath>>]
       /\ restored.tagset = TAGSET
  /\ (last.op = "setstate" /\ last.err = "none") =>
       /\ restored # NoEngine
       /\ last.built = << <<"-d", mecab.dicpath>> >>

\* an engine built on the default path, used, captured and re-hydrated
C9_Witness ==
  /\ last.op = "setstate"
  /\ mecab.tagger.args = <<>>
  /\ restored.dicpath = DICDIR
  /\ restored.tagger.args = <<"-d", DICDIR>>

\* an engine built on an explicit path, captured and re-hydrated
C9_WitnessExplicit ==
  /\ last.op = "setstate"
  /\ mecab.tagger.args = <<"-d", "/dic/a">>
  /\ restored.dicpath = "/dic/a"

\* C10: with split_inflect=true a well-formed line of type Inflect yields
\* one token per '+'-component of features[7], in order, made of the first
\* two '/'-fields of the component; any other well-formed line yields the
\* one token split_inflect=false yields.
C10_SplitInflectTokens ==
  (/\ last.op = "parse"
   /\ last.split_inflect
   /\ Len(last.lines) = 1
   /\ last.term # <<>>
   /\ WellFormedLine(last.lines[1])) =>
    /\ last.err = "none"
    /\ IF FeaturesOfLine(last.lines[1])[5] = Inflect
       THEN LET comps == StrSplit(FeaturesOfLine(last.lines[1])[8], "+") IN
            /\ Len(last.val) = Len(comps)
            /\ \A k \in 1..Len(comps) :
                 /\ Len(StrSplit(comps[k], "/")) >= 2
                 /\ last.val[k] = Render(StrSplit(comps[k], "/")[1],
                                         StrSplit(comps[k], "/")[2],
                                         last.join)
       ELSE last.val = parse(last.dump, last.join, FALSE).val

\* what is left of C10 on the calls that return
C10_WhenParseReturns ==
  (/\ last.op = "parse"
   /\ last.split_inflect
   /\ Len(last.lines) = 1
   /\ last.term # <<>>
   /\ WellFormedLine(last.lines[1])
   /\ last.err = "none") =>
    IF FeaturesOfLine(last.lines[1])[5] = Inflect
    THEN LET comps == StrSplit(FeaturesOfLine(last.lines[1])[8], "+") IN
         /\ Len(last.val) = Len(comps)
         /\ \A k \in 1..Len(comps) :
              /\ Len(StrSplit(comps[k], "/")) >= 2
              /\ last.val[k] = Render(StrSplit(comps[k], "/")[1],
                                      StrSplit(comps[k], "/")[2],
                                      last.join)
    ELSE last.val = parse(last.dump, last.join, FALSE).val

====
